---- MODULE Spec2Model ----
(***************************************************************************)
(* Evaluation pipeline of the interview backend (src/backend/index.js):    *)
(* withRetries, extractTextFromResponse, safeParseJSON and the             *)
(* POST /evaluate handler.                                                 *)
(*                                                                         *)
(* JavaScript values are tagged records of one shape so that values of     *)
(* different JavaScript types can be compared.  A JavaScript string is a   *)
(* sequence of chunks (lexemes): an error code is one chunk, a message is  *)
(* a few chunks, a model text is a sequence of JSON lexemes.               *)
(***************************************************************************)
EXTENDS Integers, Sequences, FiniteSets, TLC

(***************************************************************************)
(* JavaScript values                                                       *)
(***************************************************************************)
Undef == [t |-> "undef", n |-> 0, s |-> <<>>]
Null == [t |-> "null", n |-> 0, s |-> <<>>]
Num(k) == [t |-> "num", n |-> k, s |-> <<>>]
Str(chunks) == [t |-> "str", n |-> 0, s |-> chunks]

\* JavaScript truthiness of a value: undefined, null, 0 and "" are falsy.
Truthy(v) ==
    CASE v.t = "undef" -> FALSE
      [] v.t = "null" -> FALSE
      [] v.t = "num" -> v.n # 0
      [] v.t = "str" -> v.s # <<>>

\* a || b
Or(a, b) == IF Truthy(a) THEN a ELSE b

\* a ?? b
Nullish(a, b) == IF a.t \in {"undef", "null"} THEN b ELSE a

\* typeof v === "string" && v.includes(word), on chunks
Includes(v, word) == v.t = "str" /\ \E i \in 1..Len(v.s) : v.s[i] = word

\* String(v) as a template literal renders it
ToStr(v) ==
    CASE v.t = "undef" -> <<"undefined">>
      [] v.t = "null" -> <<"null">>
      [] v.t = "num" -> <<"<number>">>
      [] v.t = "str" -> v.s

(***************************************************************************)
(* Bounds and program constants                                            *)
(***************************************************************************)
MaxTextLen == 3
MaxParseLen == 5

Retries == 4
MinDelay == 500
MaxDelay == 6000
JitterSpan == 200

(***************************************************************************)
(* Model text: sequences of JSON lexemes.                                  *)
(*   "{" "}" ","  punctuation                                              *)
(*   "s5" "s7"    the member  "score":5  /  "score":7                       *)
(*   "7"          the bare number 7                                        *)
(*   "x"          a word of prose                                          *)
(***************************************************************************)
Alphabet == {"{", "}", ",", "s5", "s7", "7", "x"}
Members == {"s5", "s7"}
RECURSIVE TextsUpTo(_)
TextsUpTo(k) ==
    IF k = 0 THEN {<<>>}
    ELSE LET shorter == TextsUpTo(k - 1)
         IN  shorter \cup {Append(t, a) : t \in shorter, a \in Alphabet}

Texts == TextsUpTo(MaxTextLen)

ScoreOf(tok) == IF tok = "s5" THEN 5 ELSE 7

\* Parsed JSON data: an object with an optional score, or a bare number.
NoData == [t |-> "none", n |-> 0, hasScore |-> FALSE, score |-> 0]
NumData(k) == [t |-> "num", n |-> k, hasScore |-> FALSE, score |-> 0]
EmptyObj == [t |-> "obj", n |-> 0, hasScore |-> FALSE, score |-> 0]
ObjData(k) == [t |-> "obj", n |-> 0, hasScore |-> TRUE, score |-> k]

\* The text is a JSON object: "{" member ("," member)* "}" or "{" "}".
IsObjectText(toks) ==
    /\ Len(toks) >= 2
    /\ toks[1] = "{"
    /\ toks[Len(toks)] = "}"
    /\ LET inner == SubSeq(toks, 2, Len(toks) - 1)
       IN  \/ inner = <<>>
           \/ /\ Len(inner) % 2 = 1
              /\ \A i \in 1..Len(inner) :
                    IF i % 2 = 1 THEN inner[i] \in Members ELSE inner[i] = ","

\* JSON.parse(text): ok = FALSE stands for the SyntaxError it throws.
\* A repeated key keeps its last value.
JSONParse(toks) ==
    IF toks = <<"7">> THEN [ok |-> TRUE, data |-> NumData(7)]
    ELSE IF IsObjectText(toks)
    THEN IF Len(toks) = 2 THEN [ok |-> TRUE, data |-> EmptyObj]
         ELSE [ok |-> TRUE, data |-> ObjData(ScoreOf(toks[Len(toks) - 1]))]
    ELSE [ok |-> FALSE, data |-> NoData]

RECURSIVE CloseOf(_, _, _)
CloseOf(toks, i, depth) ==
    IF i > Len(toks) THEN 0
    ELSE IF toks[i] = "{" THEN CloseOf(toks, i + 1, depth + 1)
    ELSE IF toks[i] = "}" THEN (IF depth = 1 THEN i ELSE CloseOf(toks, i + 1, depth - 1))
    ELSE CloseOf(toks, i + 1, depth)

BraceMatchBalanced(toks) ==
    LET opens == {i \in 1..Len(toks) : toks[i] = "{"}
    IN  IF opens = {} THEN <<>>
        ELSE LET first == CHOOSE i \in opens : \A j \in opens : i <= j
                 close == CloseOf(toks, first, 0)
             IN  IF close = 0 THEN <<>> ELSE SubSeq(toks, first, close)

\* text.match(/{[\s\S]*}/): from the first "{" to the last "}" after it;
\* <<>> stands for null (no match; a match has at least two lexemes).
BraceMatch(toks) ==
    LET opens == {i \in 1..Len(toks) : toks[i] = "{"}
        closes == {i \in 1..Len(toks) : toks[i] = "}"}
    IN  IF opens = {} THEN <<>>
        ELSE LET first == CHOOSE i \in opens : \A j \in opens : i <= j
                 after == {j \in closes : j > first}
             IN  IF after = {} THEN <<>>
                 ELSE LET last == CHOOSE j \in after : \A k \in after : k <= j
                      IN  SubSeq(toks, first, last)

ParseFail(reason, raw) == [ok |-> FALSE, error |-> Str(reason), data |-> NoData, raw |-> raw]
ParseOk(d) == [ok |-> TRUE, error |-> Undef, data |-> d, raw |-> Undef]
NotParsed == [ok |-> FALSE, error |-> Undef, data |-> NoData, raw |-> Undef]

safeParseJSONNoTypeCheck(text) ==
    IF ~Truthy(text) THEN ParseFail(<<"No text to parse">>, Undef)
    ELSE LET whole == JSONParse(text.s)
         IN  IF whole.ok THEN ParseOk(whole.data)
             ELSE LET m == BraceMatch(text.s)
                  IN  IF m # <<>>
                      THEN LET block == JSONParse(m)
                           IN  IF block.ok THEN ParseOk(block.data)
                               ELSE ParseFail(<<"Found JSON-like block but failed to parse">>, Str(m))
                      ELSE ParseFail(<<"Response is not valid JSON">>, text)

safeParseJSONNoFallback(text) ==
    IF ~Truthy(text) \/ text.t # "str" THEN ParseFail(<<"No text to parse">>, Undef)
    ELSE LET whole == JSONParse(text.s)
         IN  IF whole.ok THEN ParseOk(whole.data)
             ELSE ParseFail(<<"Response is not valid JSON">>, text)

safeParseJSONRawWhole(text) ==
    IF ~Truthy(text) \/ text.t # "str" THEN ParseFail(<<"No text to parse">>, Undef)
    ELSE LET whole == JSONParse(text.s)
         IN  IF whole.ok THEN ParseOk(whole.data)
             ELSE LET m == BraceMatch(text.s)
                  IN  IF m # <<>>
                      THEN LET block == JSONParse(m)
                           IN  IF block.ok THEN ParseOk(block.data)
                               ELSE ParseFail(<<"Found JSON-like block but failed to parse">>, text)
                      ELSE ParseFail(<<"Response is not valid JSON">>, text)

safeParseJSON(text) ==
    IF ~Truthy(text) \/ text.t # "str" THEN ParseFail(<<"No text to parse">>, Undef)
    ELSE LET whole == JSONParse(text.s)
         IN  IF whole.ok THEN ParseOk(whole.data)
             ELSE LET m == BraceMatch(text.s)
                  IN  IF m # <<>>
                      THEN LET block == JSONParse(m)
                           IN  IF block.ok THEN ParseOk(block.data)
                               ELSE ParseFail(<<"Found JSON-like block but failed to parse">>, Str(m))
                      ELSE ParseFail(<<"Response is not valid JSON">>, text)

(***************************************************************************)
(* Provider responses.  a, b, c, e are the values found at                 *)
(*   a: candidates[0].content.parts[0].text   b: candidates[0].content.text*)
(*   c: output[0].content[0].text             e: text                      *)
(* (Undef when the path is missing); str is the value of a string response.*)
(***************************************************************************)
RNull == [kind |-> "null", str |-> <<>>, a |-> Undef, b |-> Undef, c |-> Undef, e |-> Undef]
RStr(t) == [kind |-> "str", str |-> t, a |-> Undef, b |-> Undef, c |-> Undef, e |-> Undef]
RObj(a, b, c, e) == [kind |-> "obj", str |-> <<>>, a |-> a, b |-> b, c |-> c, e |-> e]

extractTextFromResponseTextFirst(r) ==
    IF r.kind = "obj" /\ Truthy(r.e) THEN r.e
    ELSE IF r.kind = "obj" /\ Truthy(r.a) THEN r.a
    ELSE IF r.kind = "obj" /\ Truthy(r.b) THEN r.b
    ELSE IF r.kind = "obj" /\ Truthy(r.c) THEN r.c
    ELSE IF r.kind = "str" THEN Str(r.str)
    ELSE Null

extractTextFromResponse(r) ==
    IF r.kind = "obj" /\ Truthy(r.a) THEN r.a
    ELSE IF r.kind = "obj" /\ Truthy(r.b) THEN r.b
    ELSE IF r.kind = "obj" /\ Truthy(r.c) THEN r.c
    ELSE IF r.kind = "str" THEN Str(r.str)
    ELSE IF r.kind = "obj" /\ Truthy(r.e) THEN r.e
    ELSE Null

\* Object.keys(response || {}): an empty string and null have no keys.
TopKeys(r) ==
    IF r.kind # "obj" THEN {}
    ELSE (IF r.a # Undef \/ r.b # Undef THEN {"candidates"} ELSE {})
         \cup (IF r.c # Undef THEN {"output"} ELSE {})
         \cup (IF r.e # Undef THEN {"text"} ELSE {})

(***************************************************************************)
(* Errors the remote call rejects with: err.status, err.error.code,        *)
(* err.code, err.message (Undef when absent; a thrown null or undefined    *)
(* reads as all four absent).                                              *)
(***************************************************************************)
Err(status, ecode, code, message) ==
    [status |-> status, ecode |-> ecode, code |-> code, message |-> message]

\* new Error("Model service overloaded. Retries exhausted.")
TerminalError ==
    Err(Undef, Undef, Undef, Str(<<"Model service ", "overloaded", ". Retries exhausted.">>))

\* withRetries: err?.status || err?.error?.code || err?.code || null
ErrStatus(err) == Or(Or(Or(err.status, err.ecode), err.code), Null)

IsRetryableLoose(status) ==
    status \in {Num(429), Num(503), Str(<<"RESOURCE_EXHAUSTED">>), Str(<<"TOO_MANY_REQUESTS">>)}

\* withRetries: status === 429 || status === "RESOURCE_EXHAUSTED" || status === "TOO_MANY_REQUESTS"
IsRetryable(status) ==
    status \in {Num(429), Str(<<"RESOURCE_EXHAUSTED">>), Str(<<"TOO_MANY_REQUESTS">>)}

RetryLoopGuardInclusive(att, retries) == att <= retries

RetryLoopGuardShort(att, retries) == att < retries - 1

\* withRetries: while (attempt < retries)
RetryLoopGuard(att, retries) == att < retries

RECURSIVE Pow2(_)
Pow2(k) == IF k <= 0 THEN 1 ELSE 2 * Pow2(k - 1)

Min(x, y) == IF x <= y THEN x ELSE y

BackoffDelayFromZero(att, minDelay, maxDelay) == Min(maxDelay, minDelay * Pow2(att))

\* withRetries: Math.min(maxDelay, Math.floor(minDelay * Math.pow(2, attempt - 1)))
BackoffDelay(att, minDelay, maxDelay) == Min(maxDelay, minDelay * Pow2(att - 1))

\* Math.floor(Math.random() * 200)
JitterValues == 0..(JitterSpan - 1)

(***************************************************************************)
(* POST /evaluate: request bodies and responses                            *)
(***************************************************************************)
Body(topic, question, answer) == [topic |-> topic, question |-> question, answer |-> answer]

Topics == {Undef, Str(<<>>), Str(<<"Java">>)}
Questions == {Undef, Str(<<>>), Str(<<"What is OOP?">>)}
Answers == {Undef, Null, Str(<<>>), Str(<<"Object.">>)}
Bodies == {Body(t, q, a) : t \in Topics, q \in Questions, a \in Answers}

MissingFieldsNoAnswer(b) == ~Truthy(b.topic) \/ ~Truthy(b.question)

\* !topic || !question || typeof answer === "undefined"
MissingFields(b) == ~Truthy(b.topic) \/ ~Truthy(b.question) \/ b.answer.t = "undef"

BuildPrompt(b) ==
    <<"You are an expert interview evaluator. Topic: ">> \o ToStr(b.topic)
    \o <<" Question: ">> \o ToStr(b.question)
    \o <<" Candidate Answer: ">> \o ToStr(b.answer)
    \o <<" Give JSON output with: score, feedback, mistakes, missing_points, perfect_answer, next_question. Only respond in valid JSON.">>

Resp(status, success, error, evaluation, raw, hasDebug, debug) ==
    [status |-> status, success |-> success, error |-> error, evaluation |-> evaluation,
     raw |-> raw, hasDebug |-> hasDebug, debug |-> debug]

Resp400 ==
    Resp(400, FALSE, Str(<<"Missing required fields", ": topic, question, answer">>),
         NoData, Undef, FALSE, {})

Resp502(r) ==
    Resp(502, FALSE, Str(<<"Could not extract text from model response">>),
         NoData, Undef, TRUE, TopKeys(r))

RespSuccessUnparsed(p) == Resp(200, TRUE, Undef, NoData, Undef, FALSE, {})

\* res.json({ success: true, evaluation: parsed.data })
RespSuccess(p) == Resp(200, TRUE, Undef, p.data, Undef, FALSE, {})

RespParseFailureRawOnly(p, text) == Resp(200, FALSE, p.error, NoData, p.raw, FALSE, {})

\* res.status(200).json({ success: false, error: parsed.error, raw: parsed.raw ?? text })
RespParseFailure(p, text) == Resp(200, FALSE, p.error, NoData, Nullish(p.raw, text), FALSE, {})

Resp503 ==
    Resp(503, FALSE,
         Str(<<"AI model is temporarily overloaded. Please try again in a few seconds.">>),
         NoData, Undef, FALSE, {})

Resp500(e) == Resp(500, FALSE, Nullish(e.message, Str(<<"Server error">>)), NoData, Undef, FALSE, {})

\* catch: error?.status || error?.error?.code || error?.message
HandlerCode(e) == Or(Or(e.status, e.ecode), e.message)

IsOverloadCodeNoMessage(code) == code = Num(429) \/ code = Str(<<"RESOURCE_EXHAUSTED">>)

\* catch: code === 429 || code === "RESOURCE_EXHAUSTED" ||
\*        (typeof code === "string" && code.includes("overloaded"))
IsOverloadCode(code) ==
    \/ code = Num(429)
    \/ code = Str(<<"RESOURCE_EXHAUSTED">>)
    \/ Includes(code, "overloaded")

CatchResponseGateway(e) == Resp(504, FALSE, Undef, NoData, Undef, FALSE, {})

\* the handler's catch block
CatchResponse(e) == IF IsOverloadCode(HandlerCode(e)) THEN Resp503 ELSE Resp500(e)

TextMissingNullOnly(text) == text = Null

\* if (!text)
TextMissing(text) == ~Truthy(text)

(***************************************************************************)
(* Remote outcomes                                                         *)
(***************************************************************************)
\* Values of the slots b, c, e of an object response.
OtherSlots ==
    {<<Undef, Undef, Undef>>,
     <<Str(<<"x">>), Undef, Undef>>,
     <<Undef, Str(<<"7">>), Undef>>,
     <<Undef, Undef, Str(<<"{", "s5", "}">>)>>,
     <<Undef, Undef, Str(<<>>)>>,
     <<Str(<<"x">>), Str(<<"7">>), Str(<<"{", "s5", "}">>)>>}

\* What ai.models.generateContent may resolve with: null (undefined reads the
\* same), a string, or an object: every text alone in the first slot and
\* together with all lower-priority slots, and a missing, empty or non-string
\* first slot with each choice of the others.
Responses ==
    {RNull} \cup {RStr(t) : t \in Texts}
    \cup {RObj(Str(t), Undef, Undef, Undef) : t \in Texts}
    \cup {RObj(Str(t), Str(<<"x">>), Str(<<"7">>), Str(<<"{", "s5", "}">>)) : t \in Texts}
    \cup {RObj(a, o[1], o[2], o[3]) : a \in {Undef, Str(<<>>), Num(5)}, o \in OtherSlots}

\* What ai.models.generateContent may reject with.
Errors ==
    {Err(st, ec, co, msg) :
        st \in {Undef, Num(429), Num(500), Num(503)},
        ec \in {Undef, Num(429), Num(400), Str(<<"RESOURCE_EXHAUSTED">>)},
        co \in {Undef, Str(<<"TOO_MANY_REQUESTS">>), Str(<<"ECONNRESET">>)},
        msg \in {Undef, Str(<<"fetch failed">>), Str(<<"The model is ", "overloaded", ".">>)}}

(***************************************************************************)
(* State of one POST /evaluate request                                     *)
(*   pc         idle | calling | resolved | rejected | waiting | done      *)
(*   body       req.body                                                   *)
(*   prompt     the prompt sent to the model                               *)
(*   attempt    withRetries' attempt counter                               *)
(*   delay, jitter, timer   the pending backoff wait (timer = the          *)
(*              setTimeout duration; 0 when none is pending)               *)
(*   opValue, opError   what the last fn() settled with (<<>> or <<v>>)    *)
(*   response, text, parsed   the handler's constants                      *)
(*   thrown     the error the handler's catch received (<<>> or <<e>>)     *)
(*   sent       the responses written to res                               *)
(*   calls, waits, parseApplied   history: invocations of the remote call, *)
(*              backoff waits begun, safeParseJSON was called              *)
(*   peer       the same fields of a second request of the same process,   *)
(*              as a record; it stays idle unless requests are interleaved *)
(*   client     the state of the interview page in the browser, as a       *)
(*              record; it stays as loaded unless the page is operated     *)
(***************************************************************************)
(***************************************************************************)
(* The interview page (React component): its state before an interview.    *)
(* totalQuestions and timePerQuestion are form inputs (defaults 5 and 60)  *)
(* that the user sets while no interview is active; the page is taken up   *)
(* with small values filled in.                                            *)
(***************************************************************************)
MaxQuestions == 2
TimePerQuestion == 2

InitialClient ==
    [totalQuestions |-> MaxQuestions,
     timePerQuestion |-> TimePerQuestion,
     timeLeft |-> TimePerQuestion,
     interviewActive |-> FALSE,
     currentIndex |-> 0,
     lastSubmittedIndex |-> -1,
     submitting |-> FALSE,
     reviewModalOpen |-> FALSE,
     timerRunning |-> FALSE,
     nextQ |-> FALSE,
     questionFromModel |-> FALSE,
     sessionResults |-> <<>>,
     overallScore |-> <<>>,
     inFlight |-> <<>>,
     advanceTimeouts |-> <<>>,
     requests |-> <<>>]

VARIABLES pc, body, prompt, attempt, delay, jitter, timer, opValue, opError,
          response, text, parsed, thrown, sent, calls, waits, parseApplied, peer, client

vars == <<pc, body, prompt, attempt, delay, jitter, timer, opValue, opError,
          response, text, parsed, thrown, sent, calls, waits, parseApplied, peer, client>>

\* A request that has not arrived yet.
IdleRequest ==
    [pc |-> "idle", body |-> Body(Undef, Undef, Undef), prompt |-> <<>>, attempt |-> 0,
     delay |-> 0, jitter |-> 0, timer |-> 0, opValue |-> <<>>, opError |-> <<>>,
     response |-> <<>>, text |-> Undef, parsed |-> NotParsed, thrown |-> <<>>,
     sent |-> <<>>, calls |-> 0, waits |-> 0, parseApplied |-> FALSE]

Init ==
    /\ peer = IdleRequest
    /\ client = InitialClient
    /\ pc = "idle"
    /\ body = Body(Undef, Undef, Undef)
    /\ prompt = <<>>
    /\ attempt = 0
    /\ delay = 0
    /\ jitter = 0
    /\ timer = 0
    /\ opValue = <<>>
    /\ opError = <<>>
    /\ response = <<>>
    /\ text = Undef
    /\ parsed = NotParsed
    /\ thrown = <<>>
    /\ sent = <<>>
    /\ calls = 0
    /\ waits = 0
    /\ parseApplied = FALSE

\* withRetries, from the loop test on: either fn() is invoked, or the loop is
\* left and the terminal error is thrown into the handler's catch.
LoopEntry(att) ==
    IF RetryLoopGuard(att, Retries)
    THEN /\ pc' = "calling"
         /\ calls' = calls + 1
         /\ thrown' = thrown
         /\ sent' = sent
    ELSE /\ pc' = "done"
         /\ calls' = calls
         /\ thrown' = <<TerminalError>>
         /\ sent' = Append(sent, CatchResponse(TerminalError))

\* The request arrives: the handler runs up to its first await.
Evaluate(b) ==
    /\ pc = "idle"
    /\ body' = b
    /\ IF MissingFields(b)
       THEN /\ pc' = "done"
            /\ sent' = Append(sent, Resp400)
            /\ UNCHANGED <<prompt, attempt, thrown, calls>>
       ELSE /\ prompt' = BuildPrompt(b)
            /\ attempt' = 0
            /\ LoopEntry(0)
    /\ UNCHANGED <<delay, jitter, timer, opValue, opError, response, text, parsed,
                   waits, parseApplied, peer, client>>

\* The remote call resolves.
RemoteResolve(r) ==
    /\ pc = "calling"
    /\ pc' = "resolved"
    /\ opValue' = <<r>>
    /\ UNCHANGED <<body, prompt, attempt, delay, jitter, timer, opError, response, text,
                   parsed, thrown, sent, calls, waits, parseApplied, peer, client>>

\* The remote call rejects.
RemoteReject(e) ==
    /\ pc = "calling"
    /\ pc' = "rejected"
    /\ opError' = <<e>>
    /\ UNCHANGED <<body, prompt, attempt, delay, jitter, timer, opValue, response, text,
                   parsed, thrown, sent, calls, waits, parseApplied, peer, client>>

\* withRetries returns fn()'s value; the handler extracts, parses and answers.
HandleResponse ==
    /\ pc = "resolved"
    /\ pc' = "done"
    /\ response' = opValue
    /\ LET r == opValue[1]
           txt == extractTextFromResponse(r)
       IN  /\ text' = txt
           /\ IF TextMissing(txt)
              THEN /\ sent' = Append(sent, Resp502(r))
                   /\ UNCHANGED <<parsed, parseApplied>>
              ELSE LET p == safeParseJSON(txt)
                   IN  /\ parsed' = p
                       /\ parseApplied' = TRUE
                       /\ sent' = Append(sent, IF p.ok THEN RespSuccess(p)
                                                ELSE RespParseFailure(p, txt))
    /\ UNCHANGED <<body, prompt, attempt, delay, jitter, timer, opValue, opError, thrown,
                   calls, waits, peer, client>>

\* withRetries' catch: rethrow into the handler's catch, or count the
\* attempt and start the backoff wait with a jitter out of `jitters`.
CatchErrorWith(jitters) ==
    /\ pc = "rejected"
    /\ LET e == opError[1]
       IN  IF ~IsRetryable(ErrStatus(e))
           THEN /\ pc' = "done"
                /\ thrown' = <<e>>
                /\ sent' = Append(sent, CatchResponse(e))
                /\ UNCHANGED <<attempt, delay, jitter, timer, opError, waits>>
           ELSE \E j \in jitters :
                /\ pc' = "waiting"
                /\ attempt' = attempt + 1
                /\ delay' = BackoffDelay(attempt + 1, MinDelay, MaxDelay)
                /\ jitter' = j
                /\ timer' = BackoffDelay(attempt + 1, MinDelay, MaxDelay) + j
                /\ waits' = waits + 1
                /\ opError' = <<>>
                /\ UNCHANGED <<thrown, sent>>
    /\ UNCHANGED <<body, prompt, opValue, response, text, parsed, calls, parseApplied, peer, client>>

CatchError == CatchErrorWith(JitterValues)

\* The backoff timer fires: the loop test is evaluated again.
TimerFires ==
    /\ pc = "waiting"
    /\ delay' = 0
    /\ jitter' = 0
    /\ timer' = 0
    /\ LoopEntry(attempt)
    /\ UNCHANGED <<body, prompt, attempt, opValue, opError, response, text, parsed,
                   waits, parseApplied, peer, client>>

Next ==
    \/ pc = "idle" /\ \E b \in Bodies : Evaluate(b)
    \/ pc = "calling" /\ \E r \in Responses : RemoteResolve(r)
    \/ pc = "calling" /\ \E e \in Errors : RemoteReject(e)
    \/ HandleResponse
    \/ CatchError
    \/ TimerFires

Spec == Init /\ [][Next]_vars

\* withRetries hands fn()'s value through without looking into it: for its
\* progress a few values of different kinds stand for all of them.
OpaqueResponses ==
    {RNull, RStr(<<>>), RStr(<<"{", "s5", "}">>), RStr(<<"x">>),
     RObj(Str(<<"{", "s7", "}">>), Undef, Undef, Undef),
     RObj(Undef, Undef, Undef, Str(<<"7">>)),
     RObj(Undef, Undef, Undef, Undef)}

NextOpaque ==
    \/ pc = "idle" /\ \E b \in Bodies : Evaluate(b)
    \/ pc = "calling" /\ \E r \in OpaqueResponses : RemoteResolve(r)
    \/ pc = "calling" /\ \E e \in Errors : RemoteReject(e)
    \/ HandleResponse
    \/ CatchError
    \/ TimerFires

\* The event loop runs every pending continuation and every expired timer.
FairSpec ==
    /\ Init
    /\ [][NextOpaque]_vars
    /\ WF_vars(HandleResponse)
    /\ WF_vars(CatchError)
    /\ WF_vars(TimerFires)

(***************************************************************************)
(* Two requests in one process.  The variables hold the request whose      *)
(* continuation runs next and peer holds the other one; between two        *)
(* continuations (each ends at an await or at the response) the event loop *)
(* may turn to the other request.                                          *)
(***************************************************************************)
Me ==
    [pc |-> pc, body |-> body, prompt |-> prompt, attempt |-> attempt, delay |-> delay,
     jitter |-> jitter, timer |-> timer, opValue |-> opValue, opError |-> opError,
     response |-> response, text |-> text, parsed |-> parsed, thrown |-> thrown,
     sent |-> sent, calls |-> calls, waits |-> waits, parseApplied |-> parseApplied]

SwitchSharedAttempt ==
    /\ peer' = [Me EXCEPT !.attempt = peer.attempt]
    /\ pc' = peer.pc
    /\ body' = peer.body
    /\ prompt' = peer.prompt
    /\ attempt' = attempt
    /\ delay' = peer.delay
    /\ jitter' = peer.jitter
    /\ timer' = peer.timer
    /\ opValue' = peer.opValue
    /\ opError' = peer.opError
    /\ response' = peer.response
    /\ text' = peer.text
    /\ parsed' = peer.parsed
    /\ thrown' = peer.thrown
    /\ sent' = peer.sent
    /\ calls' = peer.calls
    /\ waits' = peer.waits
    /\ parseApplied' = peer.parseApplied
    /\ UNCHANGED client

\* The event loop turns to the other request: every local of withRetries and
\* of the handler belongs to one call, so all of them change hands.
Switch ==
    /\ peer' = Me
    /\ pc' = peer.pc
    /\ body' = peer.body
    /\ prompt' = peer.prompt
    /\ attempt' = peer.attempt
    /\ delay' = peer.delay
    /\ jitter' = peer.jitter
    /\ timer' = peer.timer
    /\ opValue' = peer.opValue
    /\ opError' = peer.opError
    /\ response' = peer.response
    /\ text' = peer.text
    /\ parsed' = peer.parsed
    /\ thrown' = peer.thrown
    /\ sent' = peer.sent
    /\ calls' = peer.calls
    /\ waits' = peer.waits
    /\ parseApplied' = peer.parseApplied
    /\ UNCHANGED client

ConcBodies == {Body(Undef, Undef, Undef), Body(Str(<<"Java">>), Str(<<"What is OOP?">>), Str(<<"Object.">>))}
ConcResponses == {RNull, RStr(<<"x">>), RStr(<<"{", "s5", "}">>)}
ConcErrors ==
    {Err(Num(429), Undef, Undef, Str(<<"fetch failed">>)),
     Err(Undef, Undef, Str(<<"TOO_MANY_REQUESTS">>), Undef),
     Err(Num(500), Undef, Undef, Str(<<"fetch failed">>)),
     Err(Undef, Undef, Undef, Undef)}
ConcJitter == {0, JitterSpan - 1}

\* A step of the request that holds the variables.
OwnStep ==
    \/ pc = "idle" /\ \E b \in ConcBodies : Evaluate(b)
    \/ pc = "calling" /\ \E r \in ConcResponses : RemoteResolve(r)
    \/ pc = "calling" /\ \E e \in ConcErrors : RemoteReject(e)
    \/ HandleResponse
    \/ CatchErrorWith(ConcJitter)
    \/ TimerFires

ConcNext ==
    \/ OwnStep
    \/ Switch

ConcSpec == Init /\ [][ConcNext]_vars

(***************************************************************************)
(* safeParseJSON on its own: the argument is drawn from the values a       *)
(* caller may pass, and the function is applied to it.                     *)
(***************************************************************************)
ParseInputs ==
    {Undef, Null, Num(0), Num(5), Str(<<>>)} \cup {Str(t) : t \in TextsUpTo(MaxParseLen)}

ParseInit ==
    /\ peer = IdleRequest
    /\ client = InitialClient
    /\ pc = "parse"
    /\ text \in ParseInputs
    /\ body = Body(Undef, Undef, Undef)
    /\ prompt = <<>>
    /\ attempt = 0
    /\ delay = 0
    /\ jitter = 0
    /\ timer = 0
    /\ opValue = <<>>
    /\ opError = <<>>
    /\ response = <<>>
    /\ parsed = NotParsed
    /\ thrown = <<>>
    /\ sent = <<>>
    /\ calls = 0
    /\ waits = 0
    /\ parseApplied = FALSE

ApplyParse ==
    /\ pc = "parse"
    /\ pc' = "parsed"
    /\ parsed' = safeParseJSON(text)
    /\ parseApplied' = TRUE
    /\ UNCHANGED <<body, prompt, attempt, delay, jitter, timer, opValue, opError,
                   response, text, thrown, sent, calls, waits, peer, client>>

ParseSpec == ParseInit /\ [][ApplyParse]_vars

(***************************************************************************)
(* extractTextFromResponse on its own.                                     *)
(***************************************************************************)
SlotValues ==
    {Undef, Null, Str(<<>>), Num(0), Num(5), Str(<<"x">>), Str(<<"{", "s5", "}">>)}

ExtractInputs ==
    {RNull} \cup {RStr(t) : t \in Texts}
    \cup {RObj(a, b, c, e) : a \in SlotValues, b \in SlotValues, c \in SlotValues,
                             e \in SlotValues}

ExtractInit ==
    /\ peer = IdleRequest
    /\ client = InitialClient
    /\ pc = "extract"
    /\ response \in {<<r>> : r \in ExtractInputs}
    /\ body = Body(Undef, Undef, Undef)
    /\ prompt = <<>>
    /\ attempt = 0
    /\ delay = 0
    /\ jitter = 0
    /\ timer = 0
    /\ opValue = <<>>
    /\ opError = <<>>
    /\ text = Undef
    /\ parsed = NotParsed
    /\ thrown = <<>>
    /\ sent = <<>>
    /\ calls = 0
    /\ waits = 0
    /\ parseApplied = FALSE

ApplyExtract ==
    /\ pc = "extract"
    /\ pc' = "extracted"
    /\ text' = extractTextFromResponse(response[1])
    /\ UNCHANGED <<body, prompt, attempt, delay, jitter, timer, opValue, opError,
                   response, parsed, thrown, sent, calls, waits, parseApplied, peer, client>>

ExtractSpec == ExtractInit /\ [][ApplyExtract]_vars

(***************************************************************************)
(* The interview page.  One action is one browser task: an event handler   *)
(* or a timer callback together with the render and the effects that       *)
(* follow its state updates.  The fields of client carry the names of the  *)
(* component's state; timerRunning says that the interval of timerRef is   *)
(* set, inFlight holds the fetch awaited by handleSubmitAnswer with the     *)
(* values its closure captured, advanceTimeouts the pending 200 ms         *)
(* timeouts of the review dialog with the values their closures captured,  *)
(* and requests is the history of the question indices posted to           *)
(* /evaluate in the current interview.  A result remembers the index of    *)
(* the question it answers.                                                *)
(***************************************************************************)
requestVars == <<pc, body, prompt, attempt, delay, jitter, timer, opValue, opError,
                 response, text, parsed, thrown, sent, calls, waits, parseApplied, peer>>

RECURSIVE SumScores(_)
SumScores(scores) ==
    IF scores = <<>> THEN 0 ELSE Head(scores).n + SumScores(Tail(scores))

\* Math.round of total / count for a non-negative total: halves go up.
RoundedMean(total, count) == (2 * total + count) \div (2 * count)

NumericOrNull(r) == IF r.score.t = "num" THEN r.score ELSE Null

calculateSessionScore(results) ==
    LET mapped == [i \in 1..Len(results) |-> NumericOrNull(results[i])]
        numericScores == SelectSeq(mapped, Truthy)
    IN  IF Len(numericScores) = 0
        THEN 0
        ELSE RoundedMean(SumScores(numericScores), Len(numericScores))

\* What the page shows under "Overall Score": nothing while the summary is
\* hidden.
SummaryOf(c) ==
    IF ~c.interviewActive /\ Len(c.sessionResults) > 0
    THEN <<calculateSessionScore(c.sessionResults)>>
    ELSE <<>>

Rendered(c) == [c EXCEPT !.overallScore = SummaryOf(c)]

\* The early returns of handleSubmitAnswer.
SubmitGuardNoRef(c, auto) ==
    /\ ~c.submitting
    /\ c.interviewActive \/ auto

SubmitGuard(c, auto) ==
    /\ ~c.submitting
    /\ ~(c.lastSubmittedIndex = c.currentIndex)
    /\ c.interviewActive \/ auto

\* handleSubmitAnswer up to its await of fetch.
SubmitEffect(c, auto) ==
    [c EXCEPT !.submitting = TRUE,
              !.lastSubmittedIndex = c.currentIndex,
              !.timerRunning = FALSE,
              !.inFlight = Append(@, [index |-> c.currentIndex, auto |-> auto]),
              !.requests = Append(@, c.currentIndex)]

\* What a settled request brings: the evaluation's score (absent when the
\* server answered without an evaluation or the fetch failed) and whether the
\* evaluation proposes a next question.
ClientOutcomes == [score : {Undef, Num(0), Num(7)}, next : BOOLEAN]

SetTotalQuestions(n) ==
    /\ ~client.interviewActive
    /\ n # client.totalQuestions
    /\ client' = [client EXCEPT !.totalQuestions = n]
    /\ UNCHANGED requestVars

StartInterview ==
    /\ ~client.interviewActive
    /\ client.totalQuestions > 0
    /\ client' = Rendered([client EXCEPT !.sessionResults = <<>>,
                                         !.currentIndex = 0,
                                         !.interviewActive = TRUE,
                                         !.questionFromModel = FALSE,
                                         !.lastSubmittedIndex = -1,
                                         !.timeLeft = client.timePerQuestion,
                                         !.timerRunning = TRUE,
                                         !.requests = <<>>])
    /\ UNCHANGED requestVars

\* The interval callback: the updater passed to setTimeLeft.
Tick ==
    /\ client.timerRunning
    /\ IF client.timeLeft <= 1
       THEN LET stopped == [client EXCEPT !.timerRunning = FALSE, !.timeLeft = 0]
            IN  client' = IF /\ client.lastSubmittedIndex # client.currentIndex
                             /\ SubmitGuard(client, TRUE)
                          THEN SubmitEffect(stopped, TRUE)
                          ELSE stopped
       ELSE client' = [client EXCEPT !.timeLeft = @ - 1]
    /\ UNCHANGED requestVars

\* A click on Submit Answer; the button is disabled outside an interview and
\* while a request is being evaluated.
SubmitClick ==
    /\ client.interviewActive
    /\ ~client.submitting
    /\ SubmitGuard(client, FALSE)
    /\ client' = SubmitEffect(client, FALSE)
    /\ UNCHANGED requestVars

\* The awaited fetch settles: the try or the catch branch, then finally.
RequestSettles(o) ==
    /\ client.inFlight # <<>>
    /\ LET r == Head(client.inFlight)
       IN  client' = Rendered([client EXCEPT
                !.inFlight = Tail(@),
                !.sessionResults = Append(@, [index |-> r.index, score |-> o.score,
                                              autoSubmitted |-> r.auto]),
                !.reviewModalOpen = TRUE,
                !.nextQ = o.next,
                !.submitting = FALSE])
    /\ UNCHANGED requestVars

onReviewNext ==
    /\ client.reviewModalOpen
    /\ client' = [client EXCEPT
            !.reviewModalOpen = FALSE,
            !.nextQ = FALSE,
            !.advanceTimeouts = Append(@, [from |-> client.currentIndex,
                                           total |-> client.totalQuestions,
                                           nextQ |-> client.nextQ])]
    /\ UNCHANGED requestVars

onReviewSkip ==
    /\ client.reviewModalOpen
    /\ client' = [client EXCEPT
            !.reviewModalOpen = FALSE,
            !.nextQ = FALSE,
            !.advanceTimeouts = Append(@, [from |-> client.currentIndex,
                                           total |-> client.totalQuestions,
                                           nextQ |-> FALSE])]
    /\ UNCHANGED requestVars

\* The Close button of the review dialog.
ReviewClose ==
    /\ client.reviewModalOpen
    /\ client' = [client EXCEPT !.reviewModalOpen = FALSE]
    /\ UNCHANGED requestVars

\* A 200 ms timeout fires: advanceQuestion, which ends in finishSession after
\* the last question.
advanceQuestion ==
    /\ client.advanceTimeouts # <<>>
    /\ LET a == Head(client.advanceTimeouts)
           nextIndex == a.from + 1
           rest == [client EXCEPT !.advanceTimeouts = Tail(@)]
       IN  client' =
             IF nextIndex >= a.total
             THEN Rendered([rest EXCEPT !.interviewActive = FALSE,
                                        !.timerRunning = FALSE,
                                        !.timeLeft = client.timePerQuestion])
             ELSE [rest EXCEPT !.currentIndex = nextIndex,
                               !.questionFromModel = a.nextQ,
                               !.lastSubmittedIndex = -1,
                               !.timeLeft = client.timePerQuestion,
                               !.timerRunning =
                                   IF nextIndex # client.currentIndex
                                   THEN client.interviewActive
                                   ELSE client.timerRunning]
    /\ UNCHANGED requestVars

\* The Retake button of the session summary.
Retake ==
    /\ ~client.interviewActive
    /\ Len(client.sessionResults) > 0
    /\ client' = Rendered([client EXCEPT !.sessionResults = <<>>,
                                         !.currentIndex = 0,
                                         !.questionFromModel = FALSE])
    /\ UNCHANGED requestVars

ClientNext ==
    \/ \E n \in 0..MaxQuestions : SetTotalQuestions(n)
    \/ StartInterview
    \/ Tick
    \/ SubmitClick
    \/ \E o \in ClientOutcomes : RequestSettles(o)
    \/ onReviewNext
    \/ onReviewSkip
    \/ ReviewClose
    \/ advanceQuestion
    \/ Retake

ClientSpec == Init /\ [][ClientNext]_vars

(***************************************************************************)
(* calculateSessionScore on its own: a finished session with results drawn *)
(* from the scores an evaluation may carry, and the summary not yet        *)
(* rendered.                                                               *)
(***************************************************************************)
MaxResults == 3

ScoreValues == {Undef, Str(<<"7">>), Num(0), Num(1), Num(2), Num(7), Num(10)}

RECURSIVE ResultsOfLen(_)
ResultsOfLen(n) ==
    IF n = 0 THEN {<<>>}
    ELSE {Append(rs, [index |-> n - 1, score |-> v, autoSubmitted |-> FALSE]) :
              rs \in ResultsOfLen(n - 1), v \in ScoreValues}

ScoreInputs == UNION {ResultsOfLen(n) : n \in 1..MaxResults}

ScoreInit ==
    /\ peer = IdleRequest
    /\ \E rs \in ScoreInputs :
          client = [InitialClient EXCEPT !.sessionResults = rs,
                                         !.requests = [i \in 1..Len(rs) |-> i - 1]]
    /\ pc = "idle"
    /\ body = Body(Undef, Undef, Undef)
    /\ prompt = <<>>
    /\ attempt = 0
    /\ delay = 0
    /\ jitter = 0
    /\ timer = 0
    /\ opValue = <<>>
    /\ opError = <<>>
    /\ response = <<>>
    /\ text = Undef
    /\ parsed = NotParsed
    /\ thrown = <<>>
    /\ sent = <<>>
    /\ calls = 0
    /\ waits = 0
    /\ parseApplied = FALSE

\* The summary is rendered.
RenderSummary ==
    /\ client.overallScore = <<>>
    /\ SummaryOf(client) # <<>>
    /\ client' = Rendered(client)
    /\ UNCHANGED requestVars

ScoreSpec == ScoreInit /\ [][RenderSummary]_vars

(***************************************************************************)
(* Properties                                                              *)
(***************************************************************************)
\* The retryable signature as the interface states it: the first truthy of
\* status, error.code, code is 429, "RESOURCE_EXHAUSTED" or "TOO_MANY_REQUESTS".
RetryableSignal(e) ==
    LET st == IF Truthy(e.status) THEN e.status
              ELSE IF Truthy(e.ecode) THEN e.ecode ELSE e.code
    IN  \/ st.t = "num" /\ st.n = 429
        \/ st.t = "str" /\ st.s \in {<<"RESOURCE_EXHAUSTED">>, <<"TOO_MANY_REQUESTS">>}

Answered == pc = "done" /\ Len(sent) = 1

\* C1: if the operation fails k < retries times in a row with a retryable
\* error and then succeeds, withRetries does not give up before (the terminal
\* error is raised only after `retries` retryable failures), the successful
\* invocation is invocation k+1, and withRetries eventually returns exactly
\* the value of that invocation, with no error raised.
C1_ReturnsAfterKFailures ==
    /\ [](thrown = <<TerminalError>> => attempt >= Retries)
    /\ [](pc = "resolved" => attempt < Retries /\ calls = attempt + 1)
    /\ (pc = "resolved") ~>
          (pc = "done" /\ response = opValue /\ calls = attempt + 1 /\ thrown = <<>>)

C1_Witness ==
    /\ pc = "done"
    /\ attempt = Retries - 1
    /\ calls = Retries
    /\ waits = Retries - 1
    /\ response # <<>>
    /\ response = opValue

\* C2: when every invocation fails with a retryable error, the operation is
\* invoked exactly Retries times, never more, the terminal error is raised,
\* and no retryable error ever reaches the caller of withRetries.
C2_ExhaustionAfterRetries ==
    /\ calls <= Retries
    /\ (pc = "done" /\ calls > 0 /\ attempt = calls) =>
          (calls = Retries /\ thrown = <<TerminalError>>)
    /\ thrown # <<>> => ~RetryableSignal(thrown[1])

C2_Witness ==
    /\ pc = "done"
    /\ attempt = calls
    /\ calls = Retries
    /\ thrown = <<TerminalError>>

\* C3: a non-retryable failure, at the first attempt or after earlier
\* retryable failures, is rethrown as it is in the same step: no wait is
\* started and the operation is not invoked again.
C3_NonRetryableRethrown ==
    [][(pc = "rejected" /\ ~RetryableSignal(opError[1])) =>
          (/\ pc' = "done"
           /\ thrown' = opError
           /\ calls' = calls
           /\ waits' = waits
           /\ timer' = 0)]_vars

C3_Witness ==
    /\ pc = "done"
    /\ thrown # <<>>
    /\ thrown # <<TerminalError>>
    /\ attempt = 2
    /\ waits = 2
    /\ calls = 3

\* C4: the wait after the k-th retryable failure is d + j with
\* d = min(maxDelay, minDelay * 2^(k-1)) and 0 <= j <= 200; with the defaults
\* d is 500, 1000, 2000, 4000 and no wait exceeds maxDelay + 200.
C4_BackoffWait ==
    pc = "waiting" =>
        /\ attempt \in 1..Retries
        /\ waits = attempt
        /\ delay = (IF MinDelay * 2^(attempt - 1) < MaxDelay
                    THEN MinDelay * 2^(attempt - 1) ELSE MaxDelay)
        /\ delay = <<500, 1000, 2000, 4000>>[attempt]
        /\ jitter \in 0..200
        /\ timer = delay + jitter
        /\ timer <= MaxDelay + 200

C4_Witness ==
    /\ pc = "waiting"
    /\ attempt = 4
    /\ delay = 4000
    /\ jitter = 199
    /\ timer = 4199

\* C5: a request whose topic or question is missing or empty, or whose answer
\* is undefined, is answered 400 "Missing required fields" without any remote
\* call; and a 400 answer is only ever given when no remote call was made.
C5_ClientErrorNoRemoteCall ==
    pc # "idle" =>
        /\ ( \/ body.topic \in {Undef, Str(<<>>)}
             \/ body.question \in {Undef, Str(<<>>)}
             \/ body.answer = Undef ) =>
                /\ Answered
                /\ sent[1].status = 400
                /\ sent[1].success = FALSE
                /\ Includes(sent[1].error, "Missing required fields")
                /\ calls = 0
        /\ \A i \in 1..Len(sent) : sent[i].status = 400 => calls = 0

C5_Witness ==
    /\ pc = "done"
    /\ Truthy(body.topic)
    /\ Truthy(body.question)
    /\ body.answer = Undef
    /\ sent[1].status = 400
    /\ calls = 0

\* C6: a request is answered at most once, a finished request exactly once,
\* with one of the six response classes; an unfinished request can always take
\* a step, and an error thrown inside the handler is answered 503 or 500.
C6_OneClassifiedResponse ==
    /\ Len(sent) <= 1
    /\ pc = "done" <=> Len(sent) = 1
    /\ pc # "done" => ENABLED Next
    /\ \A i \in 1..Len(sent) :
          \/ sent[i].status = 200
          \/ sent[i].status = 400 /\ ~sent[i].success
          \/ sent[i].status = 502 /\ ~sent[i].success
          \/ sent[i].status = 503 /\ ~sent[i].success
          \/ sent[i].status = 500 /\ ~sent[i].success
    /\ thrown # <<>> => (Answered /\ sent[1].status \in {500, 503})

C6_Witness ==
    /\ Answered
    /\ thrown # <<>>
    /\ sent[1].status = 500
    /\ sent[1].error = Str(<<"Server error">>)

\* C7: a valid request whose remote call fails with a retryable code on every
\* attempt is answered 503 after exactly 4 invocations of the remote call.
C7_AlwaysRateLimitedIs503 ==
    (pc = "done" /\ calls > 0 /\ attempt = calls) =>
        /\ calls = 4
        /\ Len(sent) = 1
        /\ sent[1].status = 503
        /\ sent[1].success = FALSE

C7_Witness ==
    /\ pc = "done"
    /\ calls = 4
    /\ attempt = 4
    /\ waits = 4
    /\ sent[1].status = 503

\* C8: 503 is answered only when the retry budget was exhausted on retryable
\* errors, and every error withRetries does not retry is answered 500.
C8_OverloadOnlyAfterExhaustion ==
    Answered =>
        /\ sent[1].status = 503 => (thrown = <<TerminalError>> /\ attempt = Retries)
        /\ (thrown # <<>> /\ thrown # <<TerminalError>>) => sent[1].status = 500

\* C9: when the remote call succeeded and extraction gave null or no text, the
\* answer is 502 with the debug top-level keys, and safeParseJSON is not applied.
C9_NoTextIsBadGateway ==
    (pc = "done" /\ response # <<>> /\ text \in {Null, Undef, Str(<<>>)}) =>
        /\ Len(sent) = 1
        /\ sent[1].status = 502
        /\ sent[1].success = FALSE
        /\ sent[1].hasDebug
        /\ sent[1].debug = TopKeys(response[1])
        /\ ~parseApplied
        /\ parsed = NotParsed

C9_Witness ==
    /\ pc = "done"
    /\ response # <<>>
    /\ response[1].kind = "obj"
    /\ text = Null
    /\ sent[1].status = 502
    /\ sent[1].debug = {"candidates", "text"}

\* C10: when text was extracted and safeParseJSON returned ok, the answer is
\* 200 success=true with evaluation equal to the parsed value; the score of
\* the evaluation is the score written in the model's JSON text.
C10_SuccessCarriesParsedValue ==
    (pc = "done" /\ parseApplied /\ parsed.ok) =>
        /\ Len(sent) = 1
        /\ sent[1].status = 200
        /\ sent[1].success
        /\ sent[1].evaluation = parsed.data
        /\ text = Str(<<"{", "s5", "}">>) =>
              (sent[1].evaluation.hasScore /\ sent[1].evaluation.score = 5)
        /\ text \in {Str(<<"{", "s7", "}">>), Str(<<"x", "{", "s7", "}">>)} =>
              (sent[1].evaluation.hasScore /\ sent[1].evaluation.score = 7)

C10_Witness ==
    /\ pc = "done"
    /\ text = Str(<<"{", "s7", "}">>)
    /\ calls = 2
    /\ sent[1].status = 200
    /\ sent[1].success
    /\ sent[1].evaluation = ObjData(7)

\* C11: when text was extracted but safeParseJSON fails, the answer is the
\* non-fatal 200 success=false carrying the parser's reason, and its raw field
\* is never empty: the parser's raw block when it reported one, otherwise the
\* full extracted text.
C11_ParseFailureCarriesRaw ==
    (pc = "done" /\ parseApplied /\ ~parsed.ok) =>
        /\ Len(sent) = 1
        /\ sent[1].status = 200
        /\ sent[1].success = FALSE
        /\ sent[1].error = parsed.error
        /\ sent[1].error \in {Str(<<"No text to parse">>),
                              Str(<<"Found JSON-like block but failed to parse">>),
                              Str(<<"Response is not valid JSON">>)}
        /\ Truthy(sent[1].raw)
        /\ sent[1].raw = (IF parsed.raw \in {Undef, Null} THEN text ELSE parsed.raw)
        /\ text = Str(<<"x", "{", "x">>) => sent[1].raw = Str(<<"x", "{", "x">>)
        /\ text = Str(<<"{", "x", "}">>) => sent[1].raw = text
        /\ text = Str(<<"x", "{", "x", "}">>) => sent[1].raw = Str(<<"{", "x", "}">>)

C11_Witness ==
    /\ pc = "done"
    /\ parseApplied
    /\ text = Num(5)
    /\ parsed.raw = Undef
    /\ sent[1].status = 200
    /\ ~sent[1].success
    /\ sent[1].error = Str(<<"No text to parse">>)
    /\ sent[1].raw = Num(5)

(***************************************************************************)
(* JSON validity, value and brace block, stated on the lexemes             *)
(***************************************************************************)
RECURSIVE MemberList(_)
MemberList(toks) ==
    \/ Len(toks) = 1 /\ toks[1] \in {"s5", "s7"}
    \/ /\ Len(toks) >= 3
       /\ toks[1] \in {"s5", "s7"}
       /\ toks[2] = ","
       /\ MemberList(SubSeq(toks, 3, Len(toks)))

ValidJSON(toks) ==
    \/ toks = <<"7">>
    \/ toks = <<"{", "}">>
    \/ /\ Len(toks) >= 3
       /\ Head(toks) = "{"
       /\ toks[Len(toks)] = "}"
       /\ MemberList(SubSeq(toks, 2, Len(toks) - 1))

\* The value of a valid text: a repeated key keeps its last value.
ValueOf(toks) ==
    IF toks = <<"7">> THEN NumData(7)
    ELSE IF toks = <<"{", "}">> THEN EmptyObj
    ELSE IF toks[Len(toks) - 1] = "s5" THEN ObjData(5) ELSE ObjData(7)

\* The text holds a "{" with a "}" somewhere after it.
HasBlock(toks) ==
    \E i, j \in 1..Len(toks) : i < j /\ toks[i] = "{" /\ toks[j] = "}"

\* From the first "{" to the last "}" of the text.
GreedyBlock(toks) ==
    LET i == CHOOSE i \in 1..Len(toks) :
                 toks[i] = "{" /\ \A k \in 1..(i - 1) : toks[k] # "{"
        j == CHOOSE j \in 1..Len(toks) :
                 toks[j] = "}" /\ \A k \in (j + 1)..Len(toks) : toks[k] # "}"
    IN  SubSeq(toks, i, j)

ParsedString == pc = "parsed" /\ text.t = "str" /\ text.s # <<>>

\* C12: safeParseJSON is total: every argument gives exactly one of the two
\* shapes {ok:true, data} and {ok:false, error, ...}; an empty or non-string
\* argument gives the failure "No text to parse".
C12_ParserTotal ==
    pc = "parsed" =>
        /\ \/ parsed.ok /\ parsed.data # NoData /\ parsed.error = Undef
           \/ /\ ~parsed.ok
              /\ parsed.data = NoData
              /\ parsed.error \in {Str(<<"No text to parse">>),
                                   Str(<<"Found JSON-like block but failed to parse">>),
                                   Str(<<"Response is not valid JSON">>)}
        /\ (text.t # "str" \/ text.s = <<>>) =>
              (~parsed.ok /\ parsed.error = Str(<<"No text to parse">>))
        /\ (text.t = "str" /\ text.s # <<>>) => parsed.error # Str(<<"No text to parse">>)

C12_Witness ==
    /\ pc = "parsed"
    /\ text = Num(5)
    /\ ~parsed.ok
    /\ parsed.error = Str(<<"No text to parse">>)

\* C13: safeParseJSON succeeds exactly when the whole text is valid JSON or,
\* failing that, the brace block found in it is valid JSON; the data is the
\* value of the whole text when it parses, otherwise the value of the block.
C13_SuccessIffWholeOrBlock ==
    ParsedString =>
        /\ parsed.ok <=>
              \/ ValidJSON(text.s)
              \/ HasBlock(text.s) /\ ValidJSON(GreedyBlock(text.s))
        /\ ValidJSON(text.s) => parsed.data = ValueOf(text.s)
        /\ (~ValidJSON(text.s) /\ HasBlock(text.s) /\ ValidJSON(GreedyBlock(text.s))) =>
              parsed.data = ValueOf(GreedyBlock(text.s))
        /\ text.s = <<"x", "{", "s5", "}", "x">> => parsed = ParseOk(ObjData(5))
        /\ text.s = <<"{", "s7", ",", "s5", "}">> => parsed = ParseOk(ObjData(5))

C13_Witness ==
    /\ pc = "parsed"
    /\ text = Str(<<"x", "{", "s5", "}", "x">>)
    /\ parsed.ok
    /\ parsed.data = ObjData(5)

\* C14: a failure on a non-empty string has the reason "Found JSON-like block
\* but failed to parse" and raw = the block alone when the text holds a brace
\* block, and the reason "Response is not valid JSON" and raw = the whole text
\* when it holds none.
C14_FailureReasonAndRaw ==
    (ParsedString /\ ~parsed.ok) =>
        /\ HasBlock(text.s) =>
              /\ parsed.error = Str(<<"Found JSON-like block but failed to parse">>)
              /\ parsed.raw = Str(GreedyBlock(text.s))
        /\ ~HasBlock(text.s) =>
              /\ parsed.error = Str(<<"Response is not valid JSON">>)
              /\ parsed.raw = text
        /\ text.s = <<"x", "{", "x", "}", "x">> => parsed.raw = Str(<<"{", "x", "}">>)
        /\ text.s = <<"{", "s5", ",", "x", "}">> => parsed.raw = text

C14_Witness ==
    /\ pc = "parsed"
    /\ text = Str(<<"x", "{", "x", "}", "x">>)
    /\ ~parsed.ok
    /\ parsed.error = Str(<<"Found JSON-like block but failed to parse">>)
    /\ parsed.raw = Str(<<"{", "x", "}">>)

C16_NullOrNonEmptyString ==
    pc = "extracted" => (text = Null \/ (text.t = "str" /\ text.s # <<>>))

\* C17: whenever safeParseJSON returns success, and hence whenever the handler
\* answers success=true, the carried value is a JSON object (an evaluation
\* record), never a bare number, string, boolean, null or array.
C17_SuccessIsEvaluationRecord ==
    /\ (parseApplied /\ parsed.ok) => parsed.data.t = "obj"
    /\ \A i \in 1..Len(sent) : sent[i].success => sent[i].evaluation.t = "obj"

\* C18, as claimed: the candidate parsed after a strict-parse failure runs from
\* the first "{" to the "}" that closes it (balanced braces).
C18_CandidateIsBalancedBlock ==
    (ParsedString /\ ~ValidJSON(text.s) /\ BraceMatchBalanced(text.s) # <<>>) =>
        LET cand == BraceMatchBalanced(text.s)
        IN  IF ValidJSON(cand) THEN parsed = ParseOk(ValueOf(cand))
            ELSE parsed.raw = Str(cand)

\* C18, amended: the candidate runs from the first "{" of the text to the last
\* "}" of the text, so a "}" in trailing text is part of the candidate.
C18_CandidateIsGreedyBlock ==
    (ParsedString /\ ~ValidJSON(text.s) /\ HasBlock(text.s)) =>
        LET cand == GreedyBlock(text.s)
        IN  /\ cand[1] = "{"
            /\ cand[Len(cand)] = "}"
            /\ IF ValidJSON(cand) THEN parsed = ParseOk(ValueOf(cand))
               ELSE parsed.raw = Str(cand)
            /\ text.s = <<"{", "}", "x", "}">> => parsed.raw = text
            /\ text.s = <<"x", "{", "s5", "}", "}">> =>
                  parsed.raw = Str(<<"{", "s5", "}", "}">>)

C18_Witness ==
    /\ pc = "parsed"
    /\ text = Str(<<"{", "s5", "}", "x", "}">>)
    /\ ~parsed.ok
    /\ parsed.raw = text

\* C19: the remote call is invoked only for requests whose topic, question and
\* answer are all non-empty strings; an empty or null answer is answered 400
\* without a remote call.
C19_CallOnlyWithNonEmptyFields ==
    /\ calls > 0 =>
          \A f \in {body.topic, body.question, body.answer} : f.t = "str" /\ f.s # <<>>
    /\ (pc # "idle" /\ body.answer \in {Null, Str(<<>>)}) =>
          (calls = 0 /\ pc = "done" /\ sent[1].status = 400)

\* What a request running alone shows: its attempt counter counts its own
\* retryable failures, its invocations are one per attempt, and its answer is
\* the one its own body and its own last outcome determine.
SoloConsistent(q) ==
    /\ q.attempt = q.waits
    /\ q.attempt <= Retries
    /\ q.pc \in {"calling", "resolved", "rejected"} => q.calls = q.attempt + 1
    /\ q.pc = "waiting" => q.calls = q.attempt
    /\ q.pc = "done" <=> Len(q.sent) = 1
    /\ q.pc = "done" =>
          \/ /\ q.calls = 0
             /\ q.response = <<>> /\ q.thrown = <<>>
             /\ q.sent[1].status = 400
          \/ /\ q.response # <<>> /\ q.response = q.opValue /\ q.thrown = <<>>
             /\ q.calls = q.attempt + 1
             /\ q.sent[1].status \in {200, 502}
             /\ q.sent[1].status = 502 <=> ~Truthy(q.text)
          \/ /\ q.thrown = <<TerminalError>> /\ q.response = <<>>
             /\ q.calls = Retries /\ q.attempt = Retries
             /\ q.sent[1].status = 503
          \/ /\ q.thrown # <<>> /\ q.thrown = q.opError /\ q.response = <<>>
             /\ ~RetryableSignal(q.thrown[1])
             /\ q.calls = q.attempt + 1
             /\ q.sent[1].status = 500

\* C20: under every interleaving of two requests each request's attempt
\* counter, invocations and answer are those of a run alone; a step of one
\* request leaves the other's state as it is; and while one request is
\* suspended in a backoff wait the other can take its next step.
C20_ConcurrentRequestsIndependent ==
    /\ [](SoloConsistent(Me) /\ SoloConsistent(peer))
    /\ []((peer.pc = "waiting" /\ pc # "done") => ENABLED OwnStep)
    /\ [][peer' = peer \/ (peer' = Me /\ Me' = peer)]_vars

C20_Witness ==
    /\ peer.pc = "waiting"
    /\ peer.attempt = 1
    /\ peer.calls = 1
    /\ pc = "done"
    /\ attempt = 3
    /\ calls = 4
    /\ sent[1].status = 200
    /\ sent[1].success

\* C21: every backoff wait is followed by another invocation of the
\* operation, so a wait is only ever started while an invocation is still
\* allowed, and a run that ends with the terminal error has waited
\* Retries - 1 times.
C21_EveryWaitFollowedByInvocation ==
    /\ pc = "waiting" => RetryLoopGuard(attempt, Retries)
    /\ thrown = <<TerminalError>> => waits = Retries - 1

\* C22: in an interview every question index is posted to /evaluate at most
\* once and has at most one result in sessionResults, whatever the order of
\* Submit clicks, the countdown's auto-submit and the settling of the request.
C22_OneRequestAndResultPerQuestion ==
    /\ \A i, j \in 1..Len(client.requests) :
          client.requests[i] = client.requests[j] => i = j
    /\ client.interviewActive =>
          \A i, j \in 1..Len(client.sessionResults) :
             client.sessionResults[i].index = client.sessionResults[j].index => i = j
    /\ Len(client.inFlight) <= 1
    /\ client.interviewActive =>
          Len(client.sessionResults) + Len(client.inFlight) = Len(client.requests)

C22_Witness ==
    /\ client.interviewActive
    /\ client.requests = <<0, 1>>
    /\ Len(client.sessionResults) = 2
    /\ client.sessionResults[1].autoSubmitted
    /\ ~client.sessionResults[2].autoSubmitted
    /\ ~client.submitting
    /\ ~client.reviewModalOpen

\* C23: whenever the interview is active, the current question has been
\* submitted, no request is in flight and no advance is pending, the review
\* dialog is open and offers Next and Skip; so an active interview always has
\* a next step.
C23_SubmittedQuestionCanAdvance ==
    /\ ( /\ client.interviewActive
         /\ client.lastSubmittedIndex = client.currentIndex
         /\ ~client.submitting
         /\ client.inFlight = <<>>
         /\ client.advanceTimeouts = <<>> )
       => (client.reviewModalOpen /\ ENABLED onReviewNext /\ ENABLED onReviewSkip)
    /\ client.interviewActive => ENABLED ClientNext

\* The scores of the results whose score is a number, every number included.
RECURSIVE NumbersOf(_)
NumbersOf(results) ==
    IF results = <<>> THEN <<>>
    ELSE IF Head(results).score.t = "num"
         THEN <<Head(results).score.n>> \o NumbersOf(Tail(results))
         ELSE NumbersOf(Tail(results))

RECURSIVE Total(_)
Total(ns) == IF ns = <<>> THEN 0 ELSE Head(ns) + Total(Tail(ns))

\* C24: the overall score shown is the arithmetic mean, rounded to the
\* nearest integer, of the scores of all results whose score is a number,
\* scores of 0 included, and 0 when no result has a numeric score.
C24_OverallScoreIsRoundedMean ==
    client.overallScore # <<>> =>
        LET ns == NumbersOf(client.sessionResults)
            shown == client.overallScore[1]
        IN  IF ns = <<>>
            THEN shown = 0
            ELSE /\ 2 * Len(ns) * shown <= 2 * Total(ns) + Len(ns)
                 /\ 2 * Total(ns) + Len(ns) < 2 * Len(ns) * (shown + 1)

====
